---- MODULE Spec2Model ----
(***************************************************************************)
(* A model of SGD.optimize (src/optimize.py): the batch planner, the       *)
(* update-rule selection, the epoch loop and the learning-rate schedule.   *)
(*                                                                         *)
(* Numbers.  Learning rates, gradients, parameters and costs are integers  *)
(* in fixed-point units; a decay factor is a fraction <<num, den>> carried  *)
(* in the schedule tuple <<"decay", <<num, den>>, delay>>.  A string-valued *)
(* setting such as 'constant' is the one-element tuple <<"constant">>, so   *)
(* that element 1 is what the code compares.  Python's None is the value    *)
(* None below where numbers are expected, ordered as Python 2 orders it     *)
(* (below every number), and the string "None" elsewhere.                   *)
(***************************************************************************)
EXTENDS Integers, Sequences, FiniteSets, TLC

\* ------------------------------------------------------------------ bounds
MaxSamples == 3
MaxBatchSize == 2
MaxEpochs == 4
MaxDelay == 2
MaxAcc == 2
MaxPlanSamples == 100
MaxPlanBatchSize == 32

\* ------------------------------------------------------- values and inputs
None == -1

InitRates == {16}
DecayFactors == {<<1, 2>>, <<1, 1>>}
Momenta == {1, 2}
Grads == {1, 2}
Costs == {1, 2}
AccValues == {None} \cup (0..MaxAcc)

\* Line 11: learning_schedule='fixed'.
DefaultLearningSchedule == <<"fixed">>

LearningSchedules ==
    {<<"constant">>, DefaultLearningSchedule}
    \cup {<<"decay", f>> : f \in DecayFactors}
    \cup {<<"decay", f, d>> : f \in DecayFactors, d \in 0..MaxDelay}

UpdateRules == {<<"simple">>, <<"bogus">>} \cup {<<"momentum", m>> : m \in Momenta}

VARIABLES
    self,                \* the SGD object's fields set by __init__
    nb_samples,          \* len(samples)
    model_grad,          \* T.grad(cost, param) of the model: its cost is linear
                         \* in the parameter, so the gradient is one number
    pc,                  \* position in optimize
    error,               \* the exception optimize raised, or "None"
    nb_batches, splits, largest_batch_size,
    learning_rate,       \* the shared learning-rate cell
    parameters,          \* model.parameters(): a list of one one-entry tensor
    prev_updates,        \* the list of momentum accumulators, empty if none
    predict_label,       \* "None", or "compiled"
    prev_acc, prev_dec,
    current_acc,         \* the accuracy measured by the last evaluation
    t, i,                \* epoch and batch loop counters
    avg_cost,
    consumed,            \* samples taken from samples_iterator this epoch
    nb_shuffles,         \* calls of samples.shuffle
    nb_steps,            \* calls of run_iteration
    nb_compiles,         \* builds of the validation inference callable
    \* History of the schedule's evaluations, kept for the properties below.
    nb_evals,            \* evaluations of the validation accuracy so far
    const_acc,           \* every evaluation so far measured the same number
    increasing,          \* every evaluation measured more than the one before
    stall_run,           \* length of the current run of non-improving epochs
    nb_decays,           \* writes of the learning rate by the schedule
    last_decay,          \* epoch of the latest such write, 0 if none
    batch,               \* the shared batch buffer: the shuffled positions of
                         \* the samples it holds
    batch_labels,        \* the shared label buffer: the shuffled positions of
                         \* the labels it holds
    \* History of the current epoch, kept for the properties below.
    placed,              \* how many batches each shuffled position was put in
    cost_sum,            \* sum of the costs run_iteration returned
    cost_ones            \* every run_iteration returned cost 1

vars == <<self, nb_samples, model_grad, pc, error, nb_batches, splits, largest_batch_size,
          learning_rate, parameters, prev_updates, predict_label, prev_acc,
          prev_dec, current_acc, t, i, avg_cost, consumed, nb_shuffles,
          nb_steps, nb_compiles, nb_evals, const_acc, increasing, stall_run,
          nb_decays, last_decay, batch, batch_labels, placed, cost_sum,
          cost_ones>>

planned == <<nb_batches, splits, largest_batch_size>>
config == <<self, nb_samples, model_grad>>
counters == <<nb_shuffles, nb_steps, nb_compiles>>
history == <<nb_evals, const_acc, increasing, stall_run, nb_decays, last_decay>>
buffers == <<batch, batch_labels>>
epoch_history == <<placed, cost_sum, cost_ones>>

\* ------------------------------------------------------------ arithmetic
Abs(x) == IF x < 0 THEN -x ELSE x

RECURSIVE Gcd(_, _)
Gcd(a, b) == IF b = 0 THEN a ELSE Gcd(b, a % b)

RECURSIVE IsPowerOfTwo(_)
IsPowerOfTwo(x) == IF x = 1 THEN TRUE
                   ELSE IF x % 2 = 1 THEN FALSE ELSE IsPowerOfTwo(x \div 2)

\* Python 2's >= on values that may be None: None is below every number.
PyGE(a, b) == IF b = None THEN TRUE ELSE IF a = None THEN FALSE ELSE a >= b

\* ---------------------------------------------------------- batch planner
\* np.floor and np.ceil of float(len(samples)) / batch_size.
lower_nb_batches(n, b) == n \div b

upper_nb_batches(n, b) == (n + b - 1) \div b

\* Variant of LowerErrorLess: the comparison is <=.
LowerErrorLessOrEqual(n, b) ==
    LET lo == lower_nb_batches(n, b)
        up == upper_nb_batches(n, b)
    IN  IF lo = 0 THEN FALSE
        ELSE Abs(n - b * lo) * up <= Abs(n - b * up) * lo

\* Variant of LowerErrorLess: the two errors are exchanged.
UpperErrorLess(n, b) ==
    LET lo == lower_nb_batches(n, b)
        up == upper_nb_batches(n, b)
    IN  IF lo = 0 THEN FALSE
        ELSE Abs(n - b * up) * lo < Abs(n - b * lo) * up

\* lower_error < upper_error, for error = abs(n / nb - b).  A lower count of 0
\* divides by zero: numpy gives inf, which is below nothing.  Otherwise the
\* two quotients are compared exactly by cross-multiplication.
LowerErrorLess(n, b) ==
    LET lo == lower_nb_batches(n, b)
        up == upper_nb_batches(n, b)
    IN  IF lo = 0 THEN FALSE
        ELSE Abs(n - b * lo) * up < Abs(n - b * up) * lo

NbBatches(n, b) ==
    IF LowerErrorLess(n, b) THEN lower_nb_batches(n, b) ELSE upper_nb_batches(n, b)

\* The step n/nb of np.linspace is exact in binary floating point exactly when
\* its reduced denominator is a power of two.
ExactStep(n, nb) == IsPowerOfTwo(nb \div Gcd(n, nb))

\* Variant of RoundChoices: the point is truncated, not rounded.
Truncate(k, n, nb) == {(k * n) \div nb}

\* np.round of the linspace point k*n/nb.  np.round rounds a half to the even
\* neighbour; a point that is a half in exact arithmetic but was computed from
\* an inexact step may land on either side of the half, so either neighbour
\* is a possible outcome.
RoundChoices(k, n, nb) ==
    LET q == (k * n) \div nb
        r == (k * n) % nb
    IN  IF 2 * r < nb THEN {q}
        ELSE IF 2 * r > nb THEN {q + 1}
        ELSE IF ExactStep(n, nb) THEN {IF q % 2 = 0 THEN q ELSE q + 1}
        ELSE {q, q + 1}

\* The linspace indices whose rounding has two possible outcomes.
AmbiguousPoints(n, nb) == {k \in 0..nb : Cardinality(RoundChoices(k, n, nb)) = 2}

\* The possible values of np.round(np.linspace(0, n, num=nb+1)).astype(int32),
\* as 1-indexed sequences (splits[j] of the code is s[j+1]): one for every way
\* of resolving the ambiguous points.
SplitChoices(n, nb) ==
    {[j \in 1..(nb + 1) |->
        IF (j - 1) \in up THEN ((j - 1) * n) \div nb + 1
        ELSE CHOOSE c \in RoundChoices(j - 1, n, nb) :
                 \A d \in RoundChoices(j - 1, n, nb) : c <= d]
     : up \in SUBSET AmbiguousPoints(n, nb)}

\* splits[j], with the code's 0-based index.
Split(s, j) == s[j + 1]

\* The loop of lines 77-80: the running maximum, from 0, of the sizes
\* splits[j+1] - splits[j] of the nb batches.
LargestBatch(s, nb) ==
    LET sizes == {0} \cup {Split(s, j + 1) - Split(s, j) : j \in 0..(nb - 1)}
    IN  CHOOSE m \in sizes : \A x \in sizes : x <= m

\* ------------------------------------------------------------------- init
Unplanned ==
    /\ pc = "start"
    /\ error = "None"
    /\ nb_batches = 0
    /\ splits = <<>>
    /\ largest_batch_size = 0
    /\ learning_rate = None
    /\ parameters = <<0>>
    /\ prev_updates = <<>>
    /\ predict_label = "None"
    /\ prev_acc = None
    /\ prev_dec = 0
    /\ current_acc = None
    /\ t = 0
    /\ i = 0
    /\ avg_cost = 0
    /\ consumed = 0
    /\ nb_shuffles = 0
    /\ nb_steps = 0
    /\ nb_compiles = 0
    /\ nb_evals = 0
    /\ const_acc = TRUE
    /\ increasing = TRUE
    /\ stall_run = 0
    /\ nb_decays = 0
    /\ last_decay = 0
    /\ batch = {}
    /\ batch_labels = {}
    /\ placed = [p \in 0..(nb_samples - 1) |-> 0]
    /\ cost_sum = 0
    /\ cost_ones = TRUE

Init ==
    /\ nb_samples \in 1..MaxSamples
    /\ model_grad \in Grads
    /\ self \in [batch_size : 1..MaxBatchSize,
                 init_rate : InitRates,
                 nb_epochs : 0..MaxEpochs,
                 learning_schedule : LearningSchedules,
                 update_rule : UpdateRules]
    /\ Unplanned

\* ---------------------------------------------------------------- actions
\* Lines 59-66: the number of batches.
PlanBatches ==
    /\ pc = "start"
    /\ nb_batches' = NbBatches(nb_samples, self.batch_size)
    /\ pc' = "splits"
    /\ UNCHANGED <<config, error, splits, largest_batch_size, learning_rate,
                   parameters, prev_updates, predict_label, prev_acc, prev_dec,
                   current_acc, t, i, avg_cost, consumed, counters, history, buffers, epoch_history>>

\* Lines 69-72: the split points.
PlanSplits ==
    /\ pc = "splits"
    /\ splits' \in SplitChoices(nb_samples, nb_batches)
    /\ pc' = "shared"
    /\ UNCHANGED <<config, error, nb_batches, largest_batch_size, learning_rate,
                   parameters, prev_updates, predict_label, prev_acc, prev_dec,
                   current_acc, t, i, avg_cost, consumed, counters, history, buffers, epoch_history>>

\* Lines 77-105: the largest batch, the shared buffers of that size and the
\* learning-rate cell holding init_rate.
AllocateShared ==
    /\ pc = "shared"
    /\ largest_batch_size' = LargestBatch(splits, nb_batches)
    /\ learning_rate' = self.init_rate
    /\ pc' = "update_rule"
    /\ UNCHANGED <<config, error, nb_batches, splits, parameters, prev_updates,
                   predict_label, prev_acc, prev_dec, current_acc, t, i,
                   avg_cost, consumed, counters, history, buffers, epoch_history>>

NextPlan == PlanBatches \/ PlanSplits \/ AllocateShared

InitPlan ==
    /\ nb_samples \in 1..MaxPlanSamples
    /\ model_grad \in {1}
    /\ self \in [batch_size : 1..MaxPlanBatchSize,
                 init_rate : InitRates,
                 nb_epochs : {0},
                 learning_schedule : {<<"constant">>},
                 update_rule : {<<"simple">>}]
    /\ Unplanned

SpecPlan == InitPlan /\ [][NextPlan]_vars

\* ------------------------------------------------------------ update rule
\* Line 111: param - learning_rate * T.grad(cost, param).
SimpleUpdate(param, rate, grad) == param - rate * grad

\* Variant of CurUpdate: the momentum multiplies the whole update.
CurUpdateScaled(mtm, prev, rate, grad) == mtm * (prev + rate * grad)

\* Lines 125-128: mtm * prev_updates[i] + learning_rate * T.grad(cost, param).
CurUpdate(mtm, prev, rate, grad) == mtm * prev + rate * grad

\* Lines 108-112 and 136-144: the 'simple' rule, then the compiled step and
\* the scheduler's locals.
BuildSimple ==
    /\ pc = "update_rule"
    /\ self.update_rule[1] = "simple"
    /\ predict_label' = "None"
    /\ prev_acc' = None
    /\ prev_dec' = 0
    /\ pc' = "epoch"
    /\ UNCHANGED <<config, error, planned, learning_rate, parameters,
                   prev_updates, current_acc, t, i, avg_cost, consumed,
                   counters, history, buffers, epoch_history>>

\* Variant of BuildMomentum: the branch is a plain else.
BuildMomentumElse ==
    /\ pc = "update_rule"
    /\ self.update_rule[1] # "simple"
    /\ prev_updates' = [k \in 1..Len(parameters) |-> 0]
    /\ predict_label' = "None"
    /\ prev_acc' = None
    /\ prev_dec' = 0
    /\ pc' = "epoch"
    /\ UNCHANGED <<config, error, planned, learning_rate, parameters,
                   current_acc, t, i, avg_cost, consumed, counters, history, buffers, epoch_history>>

\* Lines 113-132 and 136-144: the momentum rule with zeroed accumulators.
BuildMomentum ==
    /\ pc = "update_rule"
    /\ self.update_rule[1] # "simple"
    /\ self.update_rule[1] = "momentum"
    /\ prev_updates' = [k \in 1..Len(parameters) |-> 0]
    /\ predict_label' = "None"
    /\ prev_acc' = None
    /\ prev_dec' = 0
    /\ pc' = "epoch"
    /\ UNCHANGED <<config, error, planned, learning_rate, parameters,
                   current_acc, t, i, avg_cost, consumed, counters, history, buffers, epoch_history>>

\* Lines 133-134: any other update rule.
BuildInvalid ==
    /\ pc = "update_rule"
    /\ self.update_rule[1] # "simple"
    /\ self.update_rule[1] # "momentum"
    /\ error' = "ValueError: Invalid update rule!"
    /\ pc' = "error"
    /\ UNCHANGED <<config, planned, learning_rate, parameters, prev_updates,
                   predict_label, prev_acc, prev_dec, current_acc, t, i,
                   avg_cost, consumed, counters, history, buffers, epoch_history>>

\* ------------------------------------------------------------- epoch loop
\* Variant of EpochDone: the range is one batch short.
EpochDoneShort(ii, nb) == ii >= nb - 1

\* Line 154: for i in range(nb_batches) has run all its iterations.
EpochDone(ii, nb) == ii >= nb

\* Variant of ResetCost: the accumulator is carried over.
KeepCost(c) == c

\* Line 152: avg_cost = np.array([0]).
ResetCost(c) == 0

\* Lines 165-166: the positions of the size samples the iterator yields after
\* it has yielded c of them.
BatchPositions(c, size) == c..(c + size - 1)

\* Variant of LabelSlice: the slice is taken from the start of the labels.
LabelSliceFromZero(s, ii) == 0..(Split(s, ii + 1) - Split(s, ii) - 1)

\* Line 173: the positions of train_labels[splits[i]:splits[i+1]].
LabelSlice(s, ii) == Split(s, ii)..(Split(s, ii + 1) - 1)

\* Variant of StepRate: the compiled step also halves the learning rate.
StepRateHalved(rate) == rate \div 2

\* Lines 109-132: the updates of run_iteration assign the parameters and the
\* accumulators only; the learning rate is read and left as it is.
StepRate(rate) == rate

\* Line 238: avg_cost / nb_batches, as the fraction <<numerator, denominator>>.
EpochCost(c, nb) == <<c, nb>>

\* Lines 147-152: the next epoch: shuffle, a fresh iterator, a zeroed cost.
EpochBegin ==
    /\ pc = "epoch"
    /\ t < self.nb_epochs
    /\ t' = t + 1
    /\ nb_shuffles' = nb_shuffles + 1
    /\ consumed' = 0
    /\ avg_cost' = ResetCost(avg_cost)
    /\ i' = 0
    /\ placed' = [p \in 0..(nb_samples - 1) |-> 0]
    /\ cost_sum' = 0
    /\ cost_ones' = TRUE
    /\ pc' = "batch"
    /\ UNCHANGED <<config, error, planned, learning_rate, parameters,
                   prev_updates, predict_label, prev_acc, prev_dec, current_acc,
                   nb_steps, nb_compiles, history, buffers>>

\* Line 147: the range is exhausted and optimize returns.
Finish ==
    /\ pc = "epoch"
    /\ t >= self.nb_epochs
    /\ pc' = "done"
    /\ UNCHANGED <<config, error, planned, learning_rate, parameters,
                   prev_updates, predict_label, prev_acc, prev_dec, current_acc,
                   t, i, avg_cost, consumed, counters, history, buffers, epoch_history>>

\* Lines 154-180: batch i is taken from the iterator and run_iteration is
\* called once; it returns the batch's cost and applies the update rule's
\* assignments.
RunBatch ==
    /\ pc = "batch"
    /\ ~EpochDone(i, nb_batches)
    /\ \E cost_val \in Costs :
          /\ consumed' = consumed + (Split(splits, i + 1) - Split(splits, i))
          /\ batch' = BatchPositions(consumed, Split(splits, i + 1) - Split(splits, i))
          /\ batch_labels' = LabelSlice(splits, i)
          /\ placed' = [p \in 0..(nb_samples - 1) |->
                          IF p \in BatchPositions(consumed,
                                    Split(splits, i + 1) - Split(splits, i))
                          THEN placed[p] + 1 ELSE placed[p]]
          /\ cost_sum' = cost_sum + cost_val
          /\ cost_ones' = (cost_ones /\ cost_val = 1)
          /\ IF self.update_rule[1] = "simple"
             THEN /\ parameters' = [k \in 1..Len(parameters) |->
                                      SimpleUpdate(parameters[k], learning_rate, model_grad)]
                  /\ UNCHANGED prev_updates
             ELSE /\ parameters' = [k \in 1..Len(parameters) |->
                                      parameters[k] - CurUpdate(self.update_rule[2],
                                          prev_updates[k], learning_rate, model_grad)]
                  /\ prev_updates' = [k \in 1..Len(parameters) |->
                                      CurUpdate(self.update_rule[2],
                                          prev_updates[k], learning_rate, model_grad)]
          /\ avg_cost' = avg_cost + cost_val
    /\ learning_rate' = StepRate(learning_rate)
    /\ nb_steps' = nb_steps + 1
    /\ i' = i + 1
    /\ UNCHANGED <<config, pc, error, planned, predict_label, prev_acc,
                   prev_dec, current_acc, t, nb_shuffles, nb_compiles, history>>

\* --------------------------------------------------------------- schedule
\* Variant of NotImproved: the comparison is prev_acc <= current_acc.
NotImprovedReversed(prev, cur) == cur # None /\ PyGE(cur, prev)

\* Line 219: current_acc != None and prev_acc >= current_acc.
NotImproved(prev, cur) == cur # None /\ PyGE(prev, cur)

\* Variant of DecayNow: the counter is compared after its increment.
DecayNowAfterIncrement(prev, cur, dec, delay) ==
    NotImproved(prev, cur) /\ dec + 1 = delay

\* Lines 219-220: the branch that writes the learning rate.
DecayNow(prev, cur, dec, delay) == NotImproved(prev, cur) /\ dec = delay

\* Variant of NextPrevDec: lines 226 and 230 assign 0.
NextPrevDecReset(prev, cur, dec, delay) ==
    IF NotImproved(prev, cur)
    THEN IF dec = delay THEN 0 ELSE dec + 1
    ELSE 0

\* Lines 219-230: prev_dec after the evaluation.  Only line 228 assigns it;
\* lines 226 and 230 are the comparisons prev_dec == 0, which change nothing.
NextPrevDec(prev, cur, dec, delay) ==
    IF NotImproved(prev, cur)
    THEN IF dec = delay THEN dec ELSE dec + 1
    ELSE dec

\* Lines 223-225: learning_rate.get_value() * decay.
Decayed(rate, decay) == (rate * decay[1]) \div decay[2]

\* Variant of NextPrevAcc: the reference is the best accuracy so far.
NextPrevAccRunningMax(prev, cur) == IF PyGE(prev, cur) THEN prev ELSE cur

\* Line 231.
NextPrevAcc(prev, cur) == cur

\* An epoch is non-improving when its accuracy and the previous epoch's are
\* both numbers and it is not above the previous one (this is the reading of
\* the properties, not the code's test, which is NotImproved).
NonImproving(evals, last, acc) ==
    evals > 0 /\ last # None /\ acc # None /\ acc <= last

\* Variant of NeedsCompile: the callable is built at every evaluation.
AlwaysCompile(pl) == TRUE

\* Line 195: predict_label == None.
NeedsCompile(pl) == pl = "None"

\* Variant of ScheduleConstant: the validation accuracy is measured first.
ScheduleConstantMeasures ==
    /\ pc = "batch"
    /\ EpochDone(i, nb_batches)
    /\ self.learning_schedule[1] = "constant"
    /\ \E acc \in AccValues :
          /\ predict_label' = "compiled"
          /\ nb_compiles' = nb_compiles + 1
          /\ current_acc' = acc
          /\ prev_acc' = acc
    /\ pc' = "epoch"
    /\ UNCHANGED <<config, error, planned, learning_rate, parameters,
                   prev_updates, prev_dec, t, i, avg_cost, consumed,
                   nb_shuffles, nb_steps, history, buffers, epoch_history>>

\* Variant of ScheduleConstant: the constructor's default counts as constant.
ScheduleConstantOrDefault ==
    /\ pc = "batch"
    /\ EpochDone(i, nb_batches)
    /\ self.learning_schedule[1] \in {"constant", "fixed"}
    /\ pc' = "epoch"
    /\ UNCHANGED <<config, error, planned, learning_rate, parameters,
                   prev_updates, predict_label, prev_acc, prev_dec, current_acc,
                   t, i, avg_cost, consumed, counters, history, buffers,
                   epoch_history>>

\* Lines 182-183.
ScheduleConstant ==
    /\ pc = "batch"
    /\ EpochDone(i, nb_batches)
    /\ self.learning_schedule[1] = "constant"
    /\ pc' = "epoch"
    /\ UNCHANGED <<config, error, planned, learning_rate, parameters,
                   prev_updates, predict_label, prev_acc, prev_dec, current_acc,
                   t, i, avg_cost, consumed, counters, history, buffers, epoch_history>>

\* Lines 184-231: the validation accuracy is measured (the inference callable
\* is compiled if it is not yet) and the learning rate decays or not.
ScheduleDecay ==
    /\ pc = "batch"
    /\ EpochDone(i, nb_batches)
    /\ self.learning_schedule[1] # "constant"
    /\ self.learning_schedule[1] = "decay"
    /\ Len(self.learning_schedule) = 3
    /\ LET decay == self.learning_schedule[2]
           delay == self.learning_schedule[3]
       IN  \E acc \in AccValues :
              /\ predict_label' = "compiled"
              /\ nb_compiles' = IF NeedsCompile(predict_label)
                                THEN nb_compiles + 1 ELSE nb_compiles
              /\ current_acc' = acc
              /\ IF DecayNow(prev_acc, acc, prev_dec, delay)
                 THEN /\ learning_rate' = Decayed(learning_rate, decay)
                      /\ nb_decays' = nb_decays + 1
                      /\ last_decay' = t
                 ELSE UNCHANGED <<learning_rate, nb_decays, last_decay>>
              /\ nb_evals' = nb_evals + 1
              /\ const_acc' = (const_acc /\ acc # None
                                 /\ (nb_evals = 0 \/ acc = current_acc))
              /\ increasing' = (increasing /\ acc # None
                                  /\ (nb_evals = 0 \/ acc > current_acc))
              /\ stall_run' = IF NonImproving(nb_evals, current_acc, acc)
                               THEN stall_run + 1 ELSE 0
              /\ prev_dec' = NextPrevDec(prev_acc, acc, prev_dec, delay)
              /\ prev_acc' = NextPrevAcc(prev_acc, acc)
    /\ pc' = "epoch"
    /\ UNCHANGED <<config, error, planned, parameters, prev_updates, t, i,
                   avg_cost, consumed, nb_shuffles, nb_steps, buffers,
                   epoch_history>>

\* Line 187: decay, delay = self.learning_schedule[1:] needs two values.
ScheduleUnpackError ==
    /\ pc = "batch"
    /\ EpochDone(i, nb_batches)
    /\ self.learning_schedule[1] # "constant"
    /\ self.learning_schedule[1] = "decay"
    /\ Len(self.learning_schedule) # 3
    /\ error' = "ValueError: unpack"
    /\ pc' = "error"
    /\ UNCHANGED <<config, planned, learning_rate, parameters, prev_updates,
                   predict_label, prev_acc, prev_dec, current_acc, t, i,
                   avg_cost, consumed, counters, history, buffers, epoch_history>>

\* Variant of ScheduleInvalid: the else branch is missing.
ScheduleInvalidIgnored ==
    /\ pc = "batch"
    /\ EpochDone(i, nb_batches)
    /\ self.learning_schedule[1] # "constant"
    /\ self.learning_schedule[1] # "decay"
    /\ pc' = "epoch"
    /\ UNCHANGED <<config, error, planned, learning_rate, parameters,
                   prev_updates, predict_label, prev_acc, prev_dec, current_acc,
                   t, i, avg_cost, consumed, counters, history, buffers,
                   epoch_history>>

\* Lines 232-234: any other learning schedule.
ScheduleInvalid ==
    /\ pc = "batch"
    /\ EpochDone(i, nb_batches)
    /\ self.learning_schedule[1] # "constant"
    /\ self.learning_schedule[1] # "decay"
    /\ error' = "ValueError: not a valid learning schedule!"
    /\ pc' = "error"
    /\ UNCHANGED <<config, planned, learning_rate, parameters, prev_updates,
                   predict_label, prev_acc, prev_dec, current_acc, t, i,
                   avg_cost, consumed, counters, history, buffers, epoch_history>>

Next ==
    \/ PlanBatches
    \/ PlanSplits
    \/ AllocateShared
    \/ BuildSimple
    \/ BuildMomentum
    \/ BuildInvalid
    \/ EpochBegin
    \/ RunBatch
    \/ ScheduleConstant
    \/ ScheduleDecay
    \/ ScheduleUnpackError
    \/ ScheduleInvalid
    \/ Finish

Spec == Init /\ [][Next]_vars
\* ------------------------------------------------------------- properties
IsDecay ==
    Len(self.learning_schedule) = 3 /\ self.learning_schedule[1] = "decay"

Patience == self.learning_schedule[3]

InvalidSchedule == self.learning_schedule[1] \notin {"constant", "decay"}

InvalidRule == self.update_rule[1] \notin {"simple", "momentum"}

ScheduleError == error = "ValueError: not a valid learning schedule!"

RuleError == error = "ValueError: Invalid update rule!"

\* The accuracy strictly improves on the previous epoch's.
Improves(evals, last, acc) == evals > 0 /\ last # None /\ acc # None /\ acc > last

\* |n/c - b| < |n/d - b| for batch counts c, d >= 1.
DeviationLess(n, b, c, d) == Abs(n - b * c) * d < Abs(n - b * d) * c

\* The floor and the ceiling of n/b are two counts with the same deviation.
DeviationTie(n, b) ==
    LET lo == lower_nb_batches(n, b)
        up == upper_nb_batches(n, b)
    IN  /\ lo >= 1
        /\ lo # up
        /\ ~DeviationLess(n, b, lo, up)
        /\ ~DeviationLess(n, b, up, lo)

\* The sum of the sizes of batches lo..hi-1, by halves.
RECURSIVE SumSizes(_, _, _)
SumSizes(s, lo, hi) ==
    IF hi <= lo THEN 0
    ELSE IF hi = lo + 1 THEN Split(s, hi) - Split(s, lo)
    ELSE LET mid == (lo + hi) \div 2
         IN  SumSizes(s, lo, mid) + SumSizes(s, mid, hi)

\* C1, as stated: under constant accuracy and a decay schedule with patience
\* >= 1 the first multiplication of the learning rate is at the evaluation of
\* epoch patience+1; for patience 2 and 3 epochs it is multiplied exactly once,
\* at the end of epoch 3.
C1_FirstDecayAtPatiencePlusOne ==
    (IsDecay /\ const_acc /\ Patience >= 1) =>
        /\ nb_evals <= Patience => nb_decays = 0
        /\ nb_evals = Patience + 1 => (nb_decays = 1 /\ last_decay = Patience + 1)
        /\ (Patience = 2 /\ self.nb_epochs = 3 /\ pc = "done")
              => (nb_decays = 1 /\ last_decay = 3)

\* C1, amended: under constant accuracy and a decay schedule with patience
\* >= 1 the first multiplication of the learning rate is at the evaluation of
\* epoch patience+2; for patience 2 it is not multiplied in 3 epochs, and in 4
\* epochs it is multiplied exactly once, at the end of epoch 4.
C1_FirstDecayAtPatiencePlusTwo ==
    (IsDecay /\ const_acc /\ Patience >= 1) =>
        /\ nb_evals <= Patience + 1 => nb_decays = 0
        /\ nb_evals = Patience + 2 => (nb_decays = 1 /\ last_decay = Patience + 2)
        /\ (Patience = 2 /\ self.nb_epochs = 3 /\ pc = "done") => nb_decays = 0
        /\ (Patience = 2 /\ self.nb_epochs = 4 /\ pc = "done")
              => (nb_decays = 1 /\ last_decay = 4)

C1_Witness ==
    /\ IsDecay /\ Patience = 2 /\ const_acc
    /\ self.nb_epochs = 4 /\ pc = "done" /\ nb_evals = 4
    /\ nb_decays = 1 /\ last_decay = 4

\* C2: under a decay schedule of any patience >= 0, while every epoch's
\* accuracy is strictly greater than the previous epoch's, the learning rate
\* has never been multiplied by the factor and equals init_rate.
C2_IncreasingNeverDecays ==
    (IsDecay /\ increasing /\ nb_evals >= 1) =>
        (nb_decays = 0 /\ learning_rate = self.init_rate)

C2_Witness ==
    /\ IsDecay /\ Patience = 0 /\ increasing /\ nb_evals >= 3
    /\ learning_rate = self.init_rate /\ pc = "done"

\* C3: an evaluation whose accuracy strictly improves on the previous epoch's
\* leaves the stall counter at 0, and an evaluation that multiplies the
\* learning rate ends a run of at least `patience` consecutive non-improving
\* epochs.
C3_ResetOnImprovement ==
    [][nb_evals' = nb_evals + 1 =>
          /\ Improves(nb_evals, current_acc, current_acc') => prev_dec' = 0
          /\ nb_decays' > nb_decays => stall_run' >= Patience]_vars

\* C4: the evaluation that multiplies the learning rate leaves the stall
\* counter at 0, and with patience >= 1 it does not follow a multiplication
\* made in the epoch just before.
C4_ResetAfterDecay ==
    [][nb_decays' > nb_decays =>
          /\ prev_dec' = 0
          /\ (Patience >= 1 /\ last_decay # 0) => last_decay < t - 1]_vars

\* C5, as stated: the invalid-learning-schedule error is raised with no
\* compiled step run and no shuffle done.
C5_ScheduleErrorBeforeTraining ==
    ScheduleError => (nb_steps = 0 /\ nb_shuffles = 0)

\* C5, amended: with a valid update rule and nb_epochs >= 1, an unrecognized
\* learning schedule raises the error at the first epoch boundary, after one
\* shuffle and the nb_batches compiled steps of epoch 1 (optimize does not
\* return normally); nothing of a second epoch has run.
C5_ScheduleErrorAtFirstBoundary ==
    /\ ScheduleError =>
          /\ InvalidSchedule /\ ~InvalidRule
          /\ t = 1 /\ nb_shuffles = 1
          /\ nb_steps = nb_batches /\ i = nb_batches
          /\ consumed = nb_samples
    /\ (InvalidSchedule /\ ~InvalidRule /\ self.nb_epochs >= 1)
          => (pc # "done" /\ t <= 1 /\ nb_shuffles <= 1 /\ nb_steps <= nb_batches)

C5_Witness ==
    /\ ScheduleError /\ pc = "error"
    /\ nb_batches = 3 /\ nb_steps = 3 /\ nb_shuffles = 1
    /\ parameters # <<0>>

C7_TieResolvesToFloor ==
    (pc # "start" /\ DeviationTie(nb_samples, self.batch_size)) =>
        nb_batches = lower_nb_batches(nb_samples, self.batch_size)

\* C7, amended: when the floor and the ceiling of nb_samples/batch_size
\* deviate equally from batch_size (nb_samples=4, batch_size=3), nb_batches
\* is the ceiling (2 batches of 2).
C7_TieResolvesToCeiling ==
    /\ (pc # "start" /\ DeviationTie(nb_samples, self.batch_size)) =>
          nb_batches = upper_nb_batches(nb_samples, self.batch_size)
    /\ (pc # "start" /\ nb_samples = 4 /\ self.batch_size = 3) => nb_batches = 2

C7_Witness ==
    /\ pc = "update_rule" /\ nb_samples = 4 /\ self.batch_size = 3
    /\ DeviationTie(nb_samples, self.batch_size)
    /\ nb_batches = 2 /\ splits = <<0, 2, 4>>

\* C8: nb_batches is at least 1, is the floor or the ceiling of
\* nb_samples/batch_size, and neither of the two (a floor of 0 excepted) has a
\* strictly smaller deviation from batch_size; batch_size=32 and
\* nb_samples=100 give 3 batches.
C8_BatchCountChoice ==
    pc # "start" =>
        LET n == nb_samples
            b == self.batch_size
            cands == {lower_nb_batches(n, b), upper_nb_batches(n, b)}
        IN  /\ nb_batches >= 1
            /\ nb_batches \in cands
            /\ \A c \in cands : c >= 1 => ~DeviationLess(n, b, c, nb_batches)
            /\ (n = 100 /\ b = 32) => nb_batches = 3

C8_Witness ==
    /\ pc = "splits" /\ nb_samples = 100 /\ self.batch_size = 32
    /\ nb_batches = 3

\* C9: the split sequence has nb_batches+1 entries, starts at 0, ends at
\* nb_samples and is strictly increasing; the batch sizes sum to nb_samples,
\* none exceeds largest_batch_size, and boundary k is within one half of
\* k*nb_samples/nb_batches.
C9_SplitsWellFormed ==
    /\ pc \notin {"start", "splits"} =>
          /\ Len(splits) = nb_batches + 1
          /\ Split(splits, 0) = 0
          /\ Split(splits, nb_batches) = nb_samples
          /\ \A k \in 0..(nb_batches - 1) : Split(splits, k) < Split(splits, k + 1)
          /\ SumSizes(splits, 0, nb_batches) = nb_samples
          /\ \A k \in 0..nb_batches :
                2 * Abs(nb_batches * Split(splits, k) - k * nb_samples) <= nb_batches
    /\ pc \notin {"start", "splits", "shared"} =>
          /\ \A k \in 0..(nb_batches - 1) :
                Split(splits, k + 1) - Split(splits, k) <= largest_batch_size
          /\ \E k \in 0..(nb_batches - 1) :
                Split(splits, k + 1) - Split(splits, k) = largest_batch_size

C9_Witness ==
    /\ pc = "update_rule" /\ nb_samples = 100 /\ self.batch_size = 32
    /\ splits = <<0, 33, 67, 100>> /\ largest_batch_size = 34

\* C10: under a decay schedule the stored reference accuracy is, after every
\* evaluation, the accuracy that evaluation measured, and an evaluation counts
\* the epoch as not improved exactly when its accuracy is not above the
\* previous epoch's, whatever was measured before.
C10_ReferenceIsPreviousEpoch ==
    /\ [](nb_evals >= 1 => prev_acc = current_acc)
    /\ [][nb_evals' = nb_evals + 1 =>
            ((prev_dec' # prev_dec \/ nb_decays' # nb_decays)
                <=> NonImproving(nb_evals, current_acc, current_acc'))]_vars

C10_Witness ==
    /\ IsDecay /\ nb_evals = 2 /\ stall_run = 1 /\ ~const_acc
    /\ prev_acc = 0 /\ current_acc = 0 /\ pc = "epoch"
\* The program is one thread that runs until it returns or raises: a step
\* that can be taken is taken.
\* No branch of optimize reads the gradient's value: the runs of one gradient
\* value take the same statements as the runs of the other.
FairInit == Init /\ model_grad = 1

FairSpec == FairInit /\ [][Next]_vars /\ WF_vars(Next)

ValidSchedule == self.learning_schedule[1] = "constant" \/ IsDecay

ValidConfig == ~InvalidRule /\ ValidSchedule

\* C11: with a valid update rule and a valid schedule optimize returns, after
\* exactly nb_epochs epochs; every epoch is one shuffle, then nb_batches
\* compiled steps in batch order, then one schedule evaluation, so nb_epochs *
\* nb_batches compiled steps are run in all.
C11_LoopCompletion ==
    /\ [](ValidConfig =>
            /\ pc # "error"
            /\ t <= self.nb_epochs
            /\ pc = "batch" =>
                  /\ i <= nb_batches
                  /\ nb_shuffles = t
                  /\ nb_steps = (t - 1) * nb_batches + i
                  /\ IsDecay => nb_evals = t - 1
            /\ pc \in {"epoch", "done"} =>
                  /\ nb_shuffles = t
                  /\ nb_steps = t * nb_batches
                  /\ IsDecay => nb_evals = t
            /\ pc = "done" =>
                  /\ t = self.nb_epochs
                  /\ nb_steps = self.nb_epochs * nb_batches)
    /\ ValidConfig ~> pc = "done"

C11_Witness ==
    /\ ValidConfig /\ IsDecay /\ pc = "done"
    /\ self.nb_epochs = 3 /\ nb_batches = 3 /\ nb_steps = 9 /\ nb_shuffles = 3
    /\ nb_evals = 3
\* C12: the learning rate is written only when its cell is made and by the
\* schedule step that follows the last batch of an epoch; a compiled step
\* leaves it as it read it, so all the steps of an epoch read one value.
C12_RateWrittenBetweenEpochs ==
    /\ [][learning_rate' # learning_rate =>
            \/ pc = "shared"
            \/ /\ pc = "batch" /\ pc' = "epoch"
               /\ i = nb_batches
               /\ nb_steps' = nb_steps]_vars
    /\ [][(pc = "batch" /\ pc' = "batch") => learning_rate' = learning_rate]_vars

C12_Witness ==
    /\ pc = "batch" /\ nb_batches = 3 /\ i = 2 /\ t = 3
    /\ nb_decays = 1 /\ learning_rate = 8

\* C13: under the 'constant' schedule the learning rate is init_rate at every
\* compiled step, the validation accuracy is never computed and stays
\* undefined, and the validation inference callable is never built.
C13_ConstantIsNoOp ==
    (self.learning_schedule[1] = "constant"
        /\ pc \notin {"start", "splits", "shared"}) =>
        /\ learning_rate = self.init_rate
        /\ nb_decays = 0
        /\ nb_evals = 0 /\ current_acc = None /\ prev_acc = None
        /\ predict_label = "None" /\ nb_compiles = 0

C13_Witness ==
    /\ self.learning_schedule[1] = "constant" /\ pc = "done"
    /\ self.nb_epochs = 4 /\ nb_steps = 12
    /\ learning_rate = self.init_rate /\ predict_label = "None"

\* C14: the cost accumulator is 0 when an epoch's first batch starts, it is
\* the sum of the costs of the epoch's compiled steps, and the epoch's cost is
\* that sum over nb_batches: exactly 1 when every step returned cost 1.
C14_EpochAverageCost ==
    /\ (pc = "batch" /\ i = 0) => avg_cost = 0
    /\ pc = "batch" => avg_cost = cost_sum
    /\ (pc \in {"epoch", "done"} /\ t >= 1) =>
          /\ EpochCost(avg_cost, nb_batches) = <<cost_sum, nb_batches>>
          /\ cost_ones =>
                EpochCost(avg_cost, nb_batches)[1] = EpochCost(avg_cost, nb_batches)[2]

C14_Witness ==
    /\ pc = "epoch" /\ t = 3 /\ nb_batches = 3 /\ cost_ones /\ avg_cost = 3

C16_LazyScheduleValidation ==
    /\ ScheduleError =>
          /\ pc = "error" /\ t = 1 /\ i = nb_batches
          /\ nb_steps = nb_batches /\ nb_shuffles = 1
          /\ parameters # <<0>>
    /\ InvalidSchedule => (t <= 1 /\ nb_shuffles <= 1 /\ nb_steps <= nb_batches)
    /\ (InvalidSchedule /\ pc = "batch" /\ i = nb_batches) =>
          (ENABLED ScheduleInvalid /\ ~ENABLED EpochBegin)

C16_Witness ==
    /\ ScheduleError /\ self.nb_epochs = 4 /\ t = 1
    /\ nb_batches = 2 /\ nb_steps = 2 /\ nb_shuffles = 1
    /\ self.update_rule[1] = "momentum"

\* C17: under a decay schedule the stall counter stays within 0..patience and
\* never decreases: an improving epoch and a decaying epoch leave it
\* unchanged, a non-improving epoch adds 1 when it is not yet patience, and
\* when it is patience every non-improving epoch multiplies the learning rate.
C17_StallCounterNeverDecreases ==
    /\ [](IsDecay => (0 <= prev_dec /\ prev_dec <= Patience))
    /\ [][prev_dec' >= prev_dec]_vars
    /\ [][nb_evals' = nb_evals + 1 =>
            LET stalled == NonImproving(nb_evals, current_acc, current_acc')
            IN  /\ ~stalled => (prev_dec' = prev_dec /\ nb_decays' = nb_decays)
                /\ (stalled /\ prev_dec # Patience) =>
                      (prev_dec' = prev_dec + 1 /\ nb_decays' = nb_decays)
                /\ (stalled /\ prev_dec = Patience) =>
                      (prev_dec' = prev_dec /\ nb_decays' = nb_decays + 1)]_vars

C17_Witness ==
    /\ IsDecay /\ Patience = 1 /\ prev_dec = 1
    /\ nb_evals = 4 /\ nb_decays = 1 /\ last_decay = 3 /\ stall_run = 0

\* C18: under a decay schedule the validation inference callable is built at
\* the first evaluation, at the end of epoch 1 and not before, and at most
\* once: later evaluations find it built.
C18_InferenceBuiltOnce ==
    /\ nb_compiles <= 1
    /\ (predict_label = "compiled") <=> (nb_compiles = 1)
    /\ IsDecay => ((nb_evals >= 1) <=> (nb_compiles = 1))
    /\ nb_compiles = 1 => (t >= 1 /\ nb_steps >= nb_batches)

C18_Witness ==
    /\ IsDecay /\ nb_evals = 4 /\ nb_compiles = 1 /\ predict_label = "compiled"

\* C19: when batch i starts the iterator has yielded splits[i] samples; the
\* batch just run held the samples at shuffled positions splits[i-1] ..
\* splits[i]-1 and the labels of the same positions; and at the end of an
\* epoch every position has been put in exactly one batch.
C19_SampleLabelAlignment ==
    /\ pc = "batch" =>
          /\ consumed = Split(splits, i)
          /\ \A p \in 0..(nb_samples - 1) :
                placed[p] = IF p < Split(splits, i) THEN 1 ELSE 0
    /\ (pc = "batch" /\ i >= 1) =>
          /\ batch = Split(splits, i - 1)..(Split(splits, i) - 1)
          /\ batch_labels = batch
    /\ (pc \in {"epoch", "done"} /\ t >= 1) =>
          \A p \in 0..(nb_samples - 1) : placed[p] = 1

C19_Witness ==
    /\ pc = "batch" /\ t = 2 /\ nb_batches = 3 /\ i = 2
    /\ batch = {1} /\ batch_labels = {1} /\ consumed = 2

DefaultRun ==
    /\ self.learning_schedule = DefaultLearningSchedule
    /\ ~InvalidRule
    /\ self.nb_epochs >= 1

\* C20: with the constructor's default learning_schedule, a valid update rule
\* and nb_epochs >= 1, optimize never returns: it runs the nb_batches steps of
\* epoch 1 and raises the invalid-learning-schedule error.
C20_DefaultScheduleRaises ==
    /\ [](DefaultRun =>
            /\ pc # "done"
            /\ pc = "error" => (ScheduleError /\ t = 1 /\ nb_steps = nb_batches))
    /\ DefaultRun ~> (pc = "error" /\ ScheduleError)

C20_Witness ==
    /\ DefaultRun /\ pc = "error" /\ ScheduleError
    /\ self.nb_epochs = 4 /\ nb_batches = 3 /\ nb_steps = 3
====
